---- MODULE Spec2Model ----
(***************************************************************************)
(* ecctool.py: the ecChronos command line tool.                            *)
(*                                                                         *)
(* One invocation of the tool is one "shell" of the model: it parses its   *)
(* arguments, run_subcommand dispatches to the handlers of the subcommand  *)
(* (the liveness probe `status` first for the query subcommands), and the  *)
(* invocation ends with an exit code.  The PID files and the supervised    *)
(* java processes are shared by all invocations.                           *)
(*                                                                         *)
(* Strings are sequences of tokens; the strings the code inspects          *)
(* character by character (the duration, the PID file's text) are          *)
(* sequences of one-character tokens.                                      *)
(***************************************************************************)
EXTENDS Integers, Sequences, FiniteSets, TLC

VARIABLES fs, procs, pc, args, todo, requests, output, rendered,
          exitcode, sent, pid

vars == <<fs, procs, pc, args, todo, requests, output, rendered,
          exitcode, sent, pid>>

shellvars == <<pc, args, todo, requests, output, rendered, exitcode, sent, pid>>

(***************************************************************************)
(* Bounds of the model.                                                    *)
(***************************************************************************)
\* longest duration string enumerated over DurAlphabet
MaxDurLen == 2
\* largest process id the operating system hands out
MaxPid == 2
\* most lines a foreground start relays from its child
MaxLines == 1

(***************************************************************************)
(* Python values.                                                          *)
(***************************************************************************)
\* None, as a value no string equals
None == <<"None">>

\* `if x:` / `not x` on an optional string: None and "" are false
Truthy(v) == v # None /\ v # <<>>

UpperChar(c) ==
    CASE c = "p" -> "P"
      [] c = "t" -> "T"
      [] c = "s" -> "S"
      [] c = "m" -> "M"
      [] c = "h" -> "H"
      [] c = "d" -> "D"
      [] OTHER -> c

\* str.upper()
Upper(s) == [k \in 1..Len(s) |-> UpperChar(s[k])]

SeqsUpTo(A, n) == UNION {[1..k -> A] : k \in 0..n}

(***************************************************************************)
(* Constants of the program.                                               *)
(***************************************************************************)
DEFAULT_PID_FILE == <<"ecc.pid">>

QuerySubcommands == {"repairs", "schedules", "run-repair", "repair-info"}
LifecycleSubcommands == {"start", "stop"}
Subcommands == QuerySubcommands \cup LifecycleSubcommands \cup {"status"}

MsgNotRunning == "ecChronos is not running"
MsgRunning == "ecChronos is running"
MsgIdWithFull == "Must specify id with full"
MsgMustKeyspace == "Must specify keyspace"
MsgKeyspaceIfTable == "--keyspace must be specified if table is specified"
MsgDurationOrSince == "Either --duration or --since or both must be provided"
MsgSignedDuration == "'+' and '-' is not allowed in duration, check help for more information"
MsgStarted == "ecc started with pid"
MsgKilling == "Killing ecc with pid"

\* print(text) and print(text.format(n)); n = 0 when the text has no number
Line(text) == [text |-> text, pid |-> 0]
LineN(text, n) == [text |-> text, pid |-> n]

(***************************************************************************)
(* The remote query client (ecchronoslib.rest) and its results.            *)
(***************************************************************************)
Success == [successful |-> TRUE, data |-> "payload", exception |-> ""]
Failure == [successful |-> FALSE, data |-> "", exception |-> "cause"]
RemoteResults == {Success, Failure}

\* a call of V2RepairSchedulerRequest: keyword arguments left out are None/FALSE
NoParams == [job_id |-> None, full |-> FALSE, keyspace |-> None, table |-> None,
             host_id |-> None, since |-> None, duration |-> None, local |-> FALSE]

Call(by, op, params, r) == [by |-> by, op |-> op, params |-> params, result |-> r]

\* a call of table_printer
Render(fn, a) == [fn |-> fn, args |-> a]

\* what a handler did: remote calls, printed lines, renderer calls, and
\* whether it ended the process with sys.exit(1)
Did(req, out, rend, exit) == [req |-> req, out |-> out, rend |-> rend, exit |-> exit]

\* Route, were a remote failure fatal like every other failure
Route_fatal(call, rend) ==
    IF call.result.successful
    THEN Did(<<call>>, <<>>, <<rend>>, FALSE)
    ELSE Did(<<call>>, <<Line(call.result.exception)>>, <<>>, TRUE)

\* if result.is_successful(): table_printer...  else: print(result.format_exception())
Route(call, rend) ==
    IF call.result.successful
    THEN Did(<<call>>, <<>>, <<rend>>, FALSE)
    ELSE Did(<<call>>, <<Line(call.result.exception)>>, <<>>, FALSE)

\* sys.exit(1) after print(text), no remote call made
Refuse(text) == Did(<<>>, <<Line(text)>>, <<>>, TRUE)

(***************************************************************************)
(* The handlers of the query subcommands, as functions of the parsed       *)
(* arguments a and of the result r the remote call returns (if made).      *)
(***************************************************************************)
\* status, trying the probe a second time when it failed
status_retry(a, print_running, r) ==
    LET call == Call("status", "list_schedules", NoParams, r)
    IN IF r.successful
       THEN Did(<<call>>, IF print_running THEN <<Line(MsgRunning)>> ELSE <<>>,
                <<>>, FALSE)
       ELSE Did(<<call, call>>, <<Line(MsgNotRunning)>>, <<>>, TRUE)

\* status, without the sys.exit(1) of its failure branch
status_no_exit(a, print_running, r) ==
    LET call == Call("status", "list_schedules", NoParams, r)
    IN IF r.successful
       THEN Did(<<call>>, IF print_running THEN <<Line(MsgRunning)>> ELSE <<>>,
                <<>>, FALSE)
       ELSE Did(<<call>>, <<Line(MsgNotRunning)>>, <<>>, FALSE)

\* status(arguments, print_running): the liveness probe
status(a, print_running, r) ==
    LET call == Call("status", "list_schedules", NoParams, r)
    IN IF r.successful
       THEN Did(<<call>>, IF print_running THEN <<Line(MsgRunning)>> ELSE <<>>,
                <<>>, FALSE)
       ELSE Did(<<call>>, <<Line(MsgNotRunning)>>, <<>>, TRUE)

\* schedules, without the branch that refuses full without id
schedules_no_full_check(a, r) ==
    IF Truthy(a.id)
    THEN IF a.full
         THEN Route(Call("schedules", "get_schedule",
                         [NoParams EXCEPT !.job_id = a.id, !.full = TRUE], r),
                    Render("print_schedule", <<r.data, a.limit, TRUE>>))
         ELSE Route(Call("schedules", "get_schedule",
                         [NoParams EXCEPT !.job_id = a.id], r),
                    Render("print_schedule", <<r.data, a.limit, FALSE>>))
    ELSE IF Truthy(a.table)
    THEN IF ~Truthy(a.keyspace)
         THEN Refuse(MsgMustKeyspace)
         ELSE Route(Call("schedules", "list_schedules",
                         [NoParams EXCEPT !.keyspace = a.keyspace, !.table = a.table], r),
                    Render("print_schedules", <<r.data, a.limit>>))
    ELSE Route(Call("schedules", "list_schedules",
                    [NoParams EXCEPT !.keyspace = a.keyspace], r),
               Render("print_schedules", <<r.data, a.limit>>))

schedules(a, r) ==
    IF Truthy(a.id)
    THEN IF a.full
         THEN Route(Call("schedules", "get_schedule",
                         [NoParams EXCEPT !.job_id = a.id, !.full = TRUE], r),
                    Render("print_schedule", <<r.data, a.limit, TRUE>>))
         ELSE Route(Call("schedules", "get_schedule",
                         [NoParams EXCEPT !.job_id = a.id], r),
                    Render("print_schedule", <<r.data, a.limit, FALSE>>))
    ELSE IF a.full
    THEN Refuse(MsgIdWithFull)
    ELSE IF Truthy(a.table)
    THEN IF ~Truthy(a.keyspace)
         THEN Refuse(MsgMustKeyspace)
         ELSE Route(Call("schedules", "list_schedules",
                         [NoParams EXCEPT !.keyspace = a.keyspace, !.table = a.table], r),
                    Render("print_schedules", <<r.data, a.limit>>))
    ELSE Route(Call("schedules", "list_schedules",
                    [NoParams EXCEPT !.keyspace = a.keyspace], r),
               Render("print_schedules", <<r.data, a.limit>>))

repairs(a, r) ==
    IF Truthy(a.id)
    THEN Route(Call("repairs", "get_repair",
                    [NoParams EXCEPT !.job_id = a.id, !.host_id = a.hostid], r),
               Render("print_repairs", <<r.data, a.limit>>))
    ELSE IF Truthy(a.table)
    THEN IF ~Truthy(a.keyspace)
         THEN Refuse(MsgMustKeyspace)
         ELSE Route(Call("repairs", "list_repairs",
                         [NoParams EXCEPT !.keyspace = a.keyspace, !.table = a.table,
                                          !.host_id = a.hostid], r),
                    Render("print_repairs", <<r.data, a.limit>>))
    ELSE Route(Call("repairs", "list_repairs",
                    [NoParams EXCEPT !.keyspace = a.keyspace, !.host_id = a.hostid], r),
               Render("print_repairs", <<r.data, a.limit>>))

run_repair(a, r) ==
    IF ~Truthy(a.keyspace) /\ Truthy(a.table)
    THEN Refuse(MsgKeyspaceIfTable)
    ELSE Route(Call("run_repair", "post",
                    [NoParams EXCEPT !.keyspace = a.keyspace, !.table = a.table,
                                     !.local = a.local], r),
               Render("print_repairs", <<r.data>>))

\* repair_info_call, passing the duration on as it was typed
repair_info_call_raw(a, r) ==
    LET duration == IF Truthy(a.duration) THEN a.duration ELSE None
    IN Route(Call("repair_info", "get_repair_info",
                  [NoParams EXCEPT !.keyspace = a.keyspace, !.table = a.table,
                                   !.since = a.since, !.duration = duration,
                                   !.local = a.local], r),
             Render("print_repair_info", <<r.data, a.limit>>))

\* the remote call of repair_info, after its validations
repair_info_call(a, r) ==
    LET duration == IF Truthy(a.duration) THEN Upper(a.duration) ELSE None
    IN Route(Call("repair_info", "get_repair_info",
                  [NoParams EXCEPT !.keyspace = a.keyspace, !.table = a.table,
                                   !.since = a.since, !.duration = duration,
                                   !.local = a.local], r),
             Render("print_repair_info", <<r.data, a.limit>>))

\* repair_info, testing the duration for '+' only
repair_info_plus_only(a, r) ==
    IF ~Truthy(a.keyspace) /\ Truthy(a.table)
    THEN Refuse(MsgKeyspaceIfTable)
    ELSE IF ~Truthy(a.duration) /\ ~Truthy(a.since)
    THEN Refuse(MsgDurationOrSince)
    ELSE IF Truthy(a.duration) /\ a.duration[1] = "+"
    THEN Refuse(MsgSignedDuration)
    ELSE repair_info_call(a, r)

\* repair_info, asking for both duration and since
repair_info_needs_both(a, r) ==
    IF ~Truthy(a.keyspace) /\ Truthy(a.table)
    THEN Refuse(MsgKeyspaceIfTable)
    ELSE IF ~Truthy(a.duration) \/ ~Truthy(a.since)
    THEN Refuse(MsgDurationOrSince)
    ELSE IF Truthy(a.duration) /\ (a.duration[1] = "+" \/ a.duration[1] = "-")
    THEN Refuse(MsgSignedDuration)
    ELSE repair_info_call(a, r)

\* repair_info, testing duration and since before table and keyspace
repair_info_reordered(a, r) ==
    IF ~Truthy(a.duration) /\ ~Truthy(a.since)
    THEN Refuse(MsgDurationOrSince)
    ELSE IF ~Truthy(a.keyspace) /\ Truthy(a.table)
    THEN Refuse(MsgKeyspaceIfTable)
    ELSE IF Truthy(a.duration) /\ (a.duration[1] = "+" \/ a.duration[1] = "-")
    THEN Refuse(MsgSignedDuration)
    ELSE repair_info_call(a, r)

repair_info(a, r) ==
    IF ~Truthy(a.keyspace) /\ Truthy(a.table)
    THEN Refuse(MsgKeyspaceIfTable)
    ELSE IF ~Truthy(a.duration) /\ ~Truthy(a.since)
    THEN Refuse(MsgDurationOrSince)
    ELSE IF Truthy(a.duration) /\ (a.duration[1] = "+" \/ a.duration[1] = "-")
    THEN Refuse(MsgSignedDuration)
    ELSE repair_info_call(a, r)

\* one call of a handler from run_subcommand
Handler(fn, print_running) == [fn |-> fn, print_running |-> print_running]

\* run_subcommand, gating stop behind the probe as well
run_subcommand_gated_stop(sub) ==
    CASE sub = "repairs" -> <<Handler("status", FALSE), Handler("repairs", FALSE)>>
      [] sub = "schedules" -> <<Handler("status", FALSE), Handler("schedules", FALSE)>>
      [] sub = "run-repair" -> <<Handler("status", FALSE), Handler("run_repair", FALSE)>>
      [] sub = "repair-info" -> <<Handler("status", FALSE), Handler("repair_info", FALSE)>>
      [] sub = "start" -> <<Handler("start", FALSE)>>
      [] sub = "stop" -> <<Handler("status", FALSE), Handler("stop", FALSE)>>
      [] sub = "status" -> <<Handler("status", TRUE)>>
      [] OTHER -> <<>>

\* run_subcommand, calling status for the status subcommand as for the gate
run_subcommand_quiet_status(sub) ==
    CASE sub = "repairs" -> <<Handler("status", FALSE), Handler("repairs", FALSE)>>
      [] sub = "schedules" -> <<Handler("status", FALSE), Handler("schedules", FALSE)>>
      [] sub = "run-repair" -> <<Handler("status", FALSE), Handler("run_repair", FALSE)>>
      [] sub = "repair-info" -> <<Handler("status", FALSE), Handler("repair_info", FALSE)>>
      [] sub = "start" -> <<Handler("start", FALSE)>>
      [] sub = "stop" -> <<Handler("stop", FALSE)>>
      [] sub = "status" -> <<Handler("status", FALSE)>>
      [] OTHER -> <<>>

\* run_subcommand: the handlers the subcommand runs, in order
run_subcommand(sub) ==
    CASE sub = "repairs" -> <<Handler("status", FALSE), Handler("repairs", FALSE)>>
      [] sub = "schedules" -> <<Handler("status", FALSE), Handler("schedules", FALSE)>>
      [] sub = "run-repair" -> <<Handler("status", FALSE), Handler("run_repair", FALSE)>>
      [] sub = "repair-info" -> <<Handler("status", FALSE), Handler("repair_info", FALSE)>>
      [] sub = "start" -> <<Handler("start", FALSE)>>
      [] sub = "stop" -> <<Handler("stop", FALSE)>>
      [] sub = "status" -> <<Handler("status", TRUE)>>
      [] OTHER -> <<>>

\* the query handler named fn
QueryHandler(fn, a, r) ==
    CASE fn = "repairs" -> repairs(a, r)
      [] fn = "schedules" -> schedules(a, r)
      [] fn = "run_repair" -> run_repair(a, r)
      [] fn = "repair_info" -> repair_info(a, r)

(***************************************************************************)
(* The PID file: its text, and the conversions between a process id and    *)
(* the text.                                                               *)
(***************************************************************************)
DigitChars == <<"0", "1", "2", "3", "4", "5", "6", "7", "8", "9">>
IsDigit(c) == \E d \in 1..Len(DigitChars) : DigitChars[d] = c
DigitValue(c) == (CHOOSE d \in 1..Len(DigitChars) : DigitChars[d] = c) - 1
IsSpace(c) == c \in {" ", "\n", "\t"}

\* u"{0}".format(pid): decimal digits, most significant first
RECURSIVE Decimal(_)
Decimal(n) ==
    IF n < Len(DigitChars)
    THEN <<DigitChars[n + 1]>>
    ELSE Append(Decimal(n \div Len(DigitChars)), DigitChars[(n % Len(DigitChars)) + 1])

\* p_file.readline(): the text up to and including the first newline
RECURSIVE readline(_)
readline(text) ==
    IF text = <<>> THEN <<>>
    ELSE IF Head(text) = "\n" THEN <<"\n">>
    ELSE <<Head(text)>> \o readline(Tail(text))

RECURSIVE StripLeft(_)
StripLeft(t) == IF t # <<>> /\ IsSpace(Head(t)) THEN StripLeft(Tail(t)) ELSE t

RECURSIVE StripRight(_)
StripRight(t) ==
    IF t # <<>> /\ IsSpace(t[Len(t)]) THEN StripRight(SubSeq(t, 1, Len(t) - 1)) ELSE t

RECURSIVE DigitsValue(_)
DigitsValue(t) ==
    IF t = <<>> THEN 0
    ELSE DigitsValue(SubSeq(t, 1, Len(t) - 1)) * Len(DigitChars) + DigitValue(t[Len(t)])

\* int(text): surrounding whitespace is dropped, one sign is allowed, and
\* what is left must be one or more digits; anything else is a ValueError
int(text) ==
    LET t == StripRight(StripLeft(text))
        signed == t # <<>> /\ Head(t) \in {"+", "-"}
        digits == IF signed THEN Tail(t) ELSE t
    IN IF digits # <<>> /\ \A k \in 1..Len(digits) : IsDigit(digits[k])
       THEN [ok |-> TRUE,
             value |-> IF signed /\ Head(t) = "-"
                       THEN 0 - DigitsValue(digits) ELSE DigitsValue(digits)]
       ELSE [ok |-> FALSE, value |-> 0]

Absent == [exists |-> FALSE, text |-> <<>>]
File(text) == [exists |-> TRUE, text |-> text]

OtherPidFile == <<"other.pid">>
Paths == {DEFAULT_PID_FILE, OtherPidFile}

\* pid_file = os.path.join(home, DEFAULT_PID_FILE); if arguments.pidfile: pid_file = ...
pid_file(a) == IF Truthy(a.pidfile) THEN a.pidfile ELSE DEFAULT_PID_FILE

Pids == 1..MaxPid

\* what a PID file left behind at a path can hold besides a pid that start
\* wrote: text that is no integer, a pid and a newline (as a shell's echo
\* writes it), and a pid followed by a further line
InitialTexts ==
    {<<"x">>, Decimal(1) \o <<"\n">>, Decimal(1) \o <<"\n", "x">>}

(***************************************************************************)
(* The arguments parse_arguments can return.                               *)
(***************************************************************************)
Shells == {"a", "b"}

Namespace ==
    [subcommand |-> "", keyspace |-> None, table |-> None, id |-> None,
     hostid |-> None, full |-> FALSE, limit |-> -1, since |-> None,
     duration |-> None, local |-> FALSE, foreground |-> FALSE, pidfile |-> None]

Keyspaces == {None, <<"ks">>}
Tables == {None, <<"tb">>}
Ids == {None, <<"id">>}
HostIds == {None, <<"host">>}
Sinces == {None, <<"2022-08-22T12:00:00.0+02:00">>}
Limits == {-1, 2}
PidFiles == {None, OtherPidFile}

DurAlphabet == {"+", "-", "p", "t", "3", "m"}
DurationSamples ==
    {<<"3", "0", "m">>, <<"p", "t", "3", "0", "m">>, <<"P", "T", "3", "0", "M">>,
     <<"1", "d">>, <<"+", "1", "d">>, <<"-", "p", "t", "3", "0", "s">>}
Durations == {None} \cup SeqsUpTo(DurAlphabet, MaxDurLen) \cup DurationSamples

RepairsArgs(L) ==
    {[Namespace EXCEPT !.subcommand = "repairs", !.keyspace = k, !.table = t,
                       !.id = j, !.hostid = h, !.limit = l] :
        k \in Keyspaces, t \in Tables, j \in Ids, h \in HostIds, l \in L}

SchedulesArgs(L) ==
    {[Namespace EXCEPT !.subcommand = "schedules", !.keyspace = k, !.table = t,
                       !.id = j, !.full = f, !.limit = l] :
        k \in Keyspaces, t \in Tables, j \in Ids, f \in BOOLEAN, l \in L}

RunRepairArgs ==
    {[Namespace EXCEPT !.subcommand = "run-repair", !.keyspace = k, !.table = t,
                       !.local = c] :
        k \in Keyspaces, t \in Tables, c \in BOOLEAN}

RepairInfoArgs(D, L) ==
    {[Namespace EXCEPT !.subcommand = "repair-info", !.keyspace = k, !.table = t,
                       !.since = s, !.duration = d, !.local = c, !.limit = l] :
        k \in Keyspaces, t \in Tables, s \in Sinces, d \in D, c \in BOOLEAN, l \in L}

StartArgs ==
    {[Namespace EXCEPT !.subcommand = "start", !.foreground = f, !.pidfile = p] :
        f \in BOOLEAN, p \in PidFiles}

StopArgs == {[Namespace EXCEPT !.subcommand = "stop", !.pidfile = p] : p \in PidFiles}

StatusArgs == {[Namespace EXCEPT !.subcommand = "status"]}

QueryArgs(D, L) ==
    RepairsArgs(L) \cup SchedulesArgs(L) \cup RunRepairArgs \cup RepairInfoArgs(D, L)
      \cup StatusArgs

LifecycleArgs == StartArgs \cup StopArgs

(***************************************************************************)
(* State.                                                                  *)
(*   fs        the PID files, by path                                      *)
(*   procs     the process table: "none" (no such process), "running",     *)
(*             "quiet" (running, standard output closed), "zombie"         *)
(*             (exited, not yet waited for by its parent)                  *)
(*   and of each invocation i:                                             *)
(*   pc        "idle", "call" (about to run Head(todo)), a place inside    *)
(*             run_ecc or stop, or "done"                                  *)
(*   args      the parsed arguments                                        *)
(*   todo      the handlers run_subcommand has still to run                *)
(*   requests  the remote calls made, in order                             *)
(*   output    the lines written to standard output, in order              *)
(*   rendered  the calls of table_printer, in order                        *)
(*   exitcode  the exit code, once pc = "done"                             *)
(*   sent      the calls of os.kill, in order                              *)
(*   pid       the local variable pid of run_ecc and of stop (0: unset)    *)
(***************************************************************************)
TypeOK ==
    /\ fs \in [Paths -> [exists : BOOLEAN, text : Seq(STRING)]]
    /\ procs \in [Pids -> {"none", "running", "quiet", "zombie"}]
    /\ pc \in [Shells -> {"idle", "call", "run_ecc", "write_pidfile", "relay", "wait",
                          "kill", "remove", "done"}]
    /\ exitcode \in [Shells -> {0, 1}]
    /\ pid \in [Shells -> Int]

Init ==
    /\ fs \in [Paths -> {Absent} \cup {File(t) : t \in InitialTexts}]
    /\ procs = [p \in Pids |-> "none"]
    /\ pc = [i \in Shells |-> "idle"]
    /\ args = [i \in Shells |-> Namespace]
    /\ todo = [i \in Shells |-> <<>>]
    /\ requests = [i \in Shells |-> <<>>]
    /\ output = [i \in Shells |-> <<>>]
    /\ rendered = [i \in Shells |-> <<>>]
    /\ exitcode = [i \in Shells |-> 0]
    /\ sent = [i \in Shells |-> <<>>]
    /\ pid = [i \in Shells |-> 0]

\* the process ends with this exit code: sys.exit(code), an uncaught
\* exception (code 1), or the end of main (code 0)
Finish(i, code) ==
    /\ pc' = [pc EXCEPT ![i] = "done"]
    /\ exitcode' = [exitcode EXCEPT ![i] = code]
    /\ todo' = [todo EXCEPT ![i] = <<>>]

\* the running handler returns to run_subcommand
Return(i) ==
    IF Len(todo[i]) > 1
    THEN /\ pc' = [pc EXCEPT ![i] = "call"]
         /\ todo' = [todo EXCEPT ![i] = Tail(@)]
         /\ UNCHANGED exitcode
    ELSE Finish(i, 0)

\* main: run_subcommand(parse_arguments()), the arguments drawn from space
parse_arguments(i, space) ==
    /\ pc[i] = "idle"
    /\ \E a \in space :
         /\ args' = [args EXCEPT ![i] = a]
         /\ todo' = [todo EXCEPT ![i] = run_subcommand(a.subcommand)]
    /\ pc' = [pc EXCEPT ![i] = "call"]
    /\ UNCHANGED <<fs, procs, requests, output, rendered, exitcode, sent, pid>>

\* the effects of a query handler or of the probe on the invocation
Apply(i, did) ==
    /\ requests' = [requests EXCEPT ![i] = @ \o did.req]
    /\ output' = [output EXCEPT ![i] = @ \o did.out]
    /\ rendered' = [rendered EXCEPT ![i] = @ \o did.rend]
    /\ IF did.exit THEN Finish(i, 1) ELSE Return(i)
    /\ UNCHANGED <<fs, procs, args, sent, pid>>

\* run_subcommand calls status(arguments) or status(arguments, print_running=True)
CallStatus(i) ==
    /\ pc[i] = "call"
    /\ Head(todo[i]).fn = "status"
    /\ \E r \in RemoteResults : Apply(i, status(args[i], Head(todo[i]).print_running, r))

\* run_subcommand calls repairs, schedules, run_repair or repair_info
CallQuery(i) ==
    /\ pc[i] = "call"
    /\ Head(todo[i]).fn \in {"repairs", "schedules", "run_repair", "repair_info"}
    /\ \E r \in RemoteResults : Apply(i, QueryHandler(Head(todo[i]).fn, args[i], r))

\* the invocation is over and its shell is free for the next one
Exit(i) ==
    /\ pc[i] = "done"
    /\ pc' = [pc EXCEPT ![i] = "idle"]
    /\ args' = [args EXCEPT ![i] = Namespace]
    /\ requests' = [requests EXCEPT ![i] = <<>>]
    /\ output' = [output EXCEPT ![i] = <<>>]
    /\ rendered' = [rendered EXCEPT ![i] = <<>>]
    /\ exitcode' = [exitcode EXCEPT ![i] = 0]
    /\ sent' = [sent EXCEPT ![i] = <<>>]
    /\ pid' = [pid EXCEPT ![i] = 0]
    /\ UNCHANGED <<fs, procs, todo>>

(***************************************************************************)
(* start: the launch command is assembled, then run_ecc spawns the child,  *)
(* records its pid and, in the foreground, relays its output and waits.    *)
(***************************************************************************)
\* the invocations that are the parent of process p and have not ended
ParentAlive(p) ==
    \E i \in Shells : pid[i] = p /\ pc[i] \in {"write_pidfile", "relay", "wait"}

\* the process of invocation i ends: its exited child, if any, is reaped by init
Orphan(i) == [procs EXCEPT ![pid[i]] = IF @ = "zombie" THEN "none" ELSE @]

\* start(arguments) up to the call of run_ecc: get_class_path and
\* get_jvm_opts read the installation; opening conf/jvm.options can raise
start(i) ==
    /\ pc[i] = "call"
    /\ Head(todo[i]).fn = "start"
    /\ \/ pc' = [pc EXCEPT ![i] = "run_ecc"] /\ UNCHANGED <<todo, exitcode>>
       \/ Finish(i, 1)
    /\ UNCHANGED <<fs, procs, args, requests, output, rendered, sent, pid>>

\* run_ecc_Popen, were the PID file opened for writing before the spawn
run_ecc_Popen_file_first(i) ==
    /\ pc[i] = "run_ecc"
    /\ fs' = [fs EXCEPT ![pid_file(args[i])] = File(<<>>)]
    /\ \/ \E p \in Pids :
            /\ procs[p] = "none"
            /\ procs' = [procs EXCEPT ![p] = "running"]
            /\ pid' = [pid EXCEPT ![i] = p]
            /\ output' = [output EXCEPT ![i] = Append(@, LineN(MsgStarted, p))]
            /\ pc' = [pc EXCEPT ![i] = "write_pidfile"]
            /\ UNCHANGED <<todo, exitcode>>
       \/ /\ Finish(i, 1)
          /\ UNCHANGED <<procs, pid, output>>
    /\ UNCHANGED <<args, requests, rendered, sent>>

\* proc = subprocess.Popen(...); pid = proc.pid; print("ecc started with pid ...")
\* or Popen raises OSError (no java executable, no process to be had)
run_ecc_Popen(i) ==
    /\ pc[i] = "run_ecc"
    /\ \/ \E p \in Pids :
            /\ procs[p] = "none"
            /\ procs' = [procs EXCEPT ![p] = "running"]
            /\ pid' = [pid EXCEPT ![i] = p]
            /\ output' = [output EXCEPT ![i] = Append(@, LineN(MsgStarted, p))]
            /\ pc' = [pc EXCEPT ![i] = "write_pidfile"]
            /\ UNCHANGED <<todo, exitcode>>
       \/ /\ Finish(i, 1)
          /\ UNCHANGED <<procs, pid, output>>
    /\ UNCHANGED <<fs, args, requests, rendered, sent>>

\* run_ecc_write, were the PID file created exclusively (mode "x")
run_ecc_write_exclusive(i) ==
    /\ pc[i] = "write_pidfile"
    /\ IF fs[pid_file(args[i])].exists
       THEN /\ Finish(i, 1)
            /\ procs' = Orphan(i)
            /\ UNCHANGED fs
       ELSE /\ fs' = [fs EXCEPT ![pid_file(args[i])] = File(Decimal(pid[i]))]
            /\ IF args[i].foreground
               THEN /\ pc' = [pc EXCEPT ![i] = "relay"]
                    /\ UNCHANGED <<todo, exitcode, procs>>
               ELSE /\ Return(i)
                    /\ procs' = Orphan(i)
    /\ UNCHANGED <<args, requests, output, rendered, sent, pid>>

\* run_ecc_write, ignoring arguments.pidfile
run_ecc_write_default_path(i) ==
    /\ pc[i] = "write_pidfile"
    /\ fs' = [fs EXCEPT ![DEFAULT_PID_FILE] = File(Decimal(pid[i]))]
    /\ IF args[i].foreground
       THEN /\ pc' = [pc EXCEPT ![i] = "relay"]
            /\ UNCHANGED <<todo, exitcode, procs>>
       ELSE /\ Return(i)
            /\ procs' = Orphan(i)
    /\ UNCHANGED <<args, requests, output, rendered, sent, pid>>

\* run_ecc_write, were the pid written only once a foreground start is over
run_ecc_write_after_wait(i) ==
    /\ pc[i] = "write_pidfile"
    /\ IF args[i].foreground
       THEN /\ pc' = [pc EXCEPT ![i] = "relay"]
            /\ UNCHANGED <<todo, exitcode, procs, fs>>
       ELSE /\ fs' = [fs EXCEPT ![pid_file(args[i])] = File(Decimal(pid[i]))]
            /\ Return(i)
            /\ procs' = Orphan(i)
    /\ UNCHANGED <<args, requests, output, rendered, sent, pid>>

\* with open(pid_file, "w") as p_file: p_file.write(u"{0}".format(pid))
\* and, when not in the foreground, the return of run_ecc
run_ecc_write(i) ==
    /\ pc[i] = "write_pidfile"
    /\ fs' = [fs EXCEPT ![pid_file(args[i])] = File(Decimal(pid[i]))]
    /\ IF args[i].foreground
       THEN /\ pc' = [pc EXCEPT ![i] = "relay"]
            /\ UNCHANGED <<todo, exitcode, procs>>
       ELSE /\ Return(i)
            /\ procs' = Orphan(i)
    /\ UNCHANGED <<args, requests, output, rendered, sent, pid>>

\* line = proc.stdout.readline(): a line is written to standard output, or
\* the stream is at its end and the loop is left.  The pipe is opened
\* without a text mode: an interpreter that reads bytes from it (Python 3)
\* raises TypeError in sys.stdout.write(line), and the child is left running
run_ecc_relay(i) ==
    /\ pc[i] = "relay"
    /\ \/ /\ procs[pid[i]] = "running"
          /\ Len(output[i]) <= MaxLines
          /\ output' = [output EXCEPT ![i] = Append(@, Line("line"))]
          /\ UNCHANGED <<pc, todo, exitcode>>
       \/ /\ procs[pid[i]] = "running"
          /\ Finish(i, 1)
          /\ UNCHANGED output
       \/ /\ procs[pid[i]] # "running"
          /\ pc' = [pc EXCEPT ![i] = "wait"]
          /\ UNCHANGED <<output, todo, exitcode>>
    /\ UNCHANGED <<fs, procs, args, requests, rendered, sent, pid>>

\* run_ecc_wait, were the PID file removed once the child has exited
run_ecc_wait_cleanup(i) ==
    /\ pc[i] = "wait"
    /\ procs[pid[i]] = "zombie"
    /\ procs' = [procs EXCEPT ![pid[i]] = "none"]
    /\ fs' = [fs EXCEPT ![pid_file(args[i])] = Absent]
    /\ Return(i)
    /\ UNCHANGED <<args, requests, output, rendered, sent, pid>>

\* proc.wait() returns once the child has exited
run_ecc_wait(i) ==
    /\ pc[i] = "wait"
    /\ procs[pid[i]] = "zombie"
    /\ procs' = [procs EXCEPT ![pid[i]] = "none"]
    /\ Return(i)
    /\ UNCHANGED <<fs, args, requests, output, rendered, sent, pid>>

(***************************************************************************)
(* stop                                                                    *)
(***************************************************************************)
Signal(p, ok) == [pid |-> p, sig |-> "SIGTERM", delivered |-> ok]

\* stop_read, were the whole file converted instead of its first line
stop_read_whole_file(i) ==
    /\ pc[i] = "call"
    /\ Head(todo[i]).fn = "stop"
    /\ LET f == fs[pid_file(args[i])]
           n == int(f.text)
       IN IF f.exists /\ n.ok
          THEN /\ pid' = [pid EXCEPT ![i] = n.value]
               /\ output' = [output EXCEPT ![i] = Append(@, LineN(MsgKilling, n.value))]
               /\ pc' = [pc EXCEPT ![i] = "kill"]
               /\ UNCHANGED <<todo, exitcode>>
          ELSE /\ Finish(i, 1)
               /\ UNCHANGED <<pid, output>>
    /\ UNCHANGED <<fs, procs, args, requests, rendered, sent>>

\* stop_read, were a missing PID file taken for a service already stopped
stop_read_lenient(i) ==
    /\ pc[i] = "call"
    /\ Head(todo[i]).fn = "stop"
    /\ LET f == fs[pid_file(args[i])]
           n == int(readline(f.text))
       IN IF f.exists /\ n.ok
          THEN /\ pid' = [pid EXCEPT ![i] = n.value]
               /\ output' = [output EXCEPT ![i] = Append(@, LineN(MsgKilling, n.value))]
               /\ pc' = [pc EXCEPT ![i] = "kill"]
               /\ UNCHANGED <<todo, exitcode>>
          ELSE /\ Finish(i, IF f.exists THEN 1 ELSE 0)
               /\ UNCHANGED <<pid, output>>
    /\ UNCHANGED <<fs, procs, args, requests, rendered, sent>>

\* with open(pid_file, "r") as p_file: pid = int(p_file.readline()); print(...)
\* open raises when there is no file, int raises when the line is no integer
stop_read(i) ==
    /\ pc[i] = "call"
    /\ Head(todo[i]).fn = "stop"
    /\ LET f == fs[pid_file(args[i])]
           n == int(readline(f.text))
       IN IF f.exists /\ n.ok
          THEN /\ pid' = [pid EXCEPT ![i] = n.value]
               /\ output' = [output EXCEPT ![i] = Append(@, LineN(MsgKilling, n.value))]
               /\ pc' = [pc EXCEPT ![i] = "kill"]
               /\ UNCHANGED <<todo, exitcode>>
          ELSE /\ Finish(i, 1)
               /\ UNCHANGED <<pid, output>>
    /\ UNCHANGED <<fs, procs, args, requests, rendered, sent>>

\* os.kill(pid, signal.SIGTERM): raises when there is no such process
stop_kill(i) ==
    /\ pc[i] = "kill"
    /\ IF pid[i] \in Pids /\ procs[pid[i]] # "none"
       THEN /\ sent' = [sent EXCEPT ![i] = Append(@, Signal(pid[i], TRUE))]
            /\ pc' = [pc EXCEPT ![i] = "remove"]
            /\ UNCHANGED <<todo, exitcode>>
       ELSE /\ sent' = [sent EXCEPT ![i] = Append(@, Signal(pid[i], FALSE))]
            /\ Finish(i, 1)
    /\ UNCHANGED <<fs, procs, args, requests, output, rendered, pid>>

\* stop_remove, were a missing file no error
stop_remove_tolerant(i) ==
    /\ pc[i] = "remove"
    /\ fs' = [fs EXCEPT ![pid_file(args[i])] = Absent]
    /\ Return(i)
    /\ UNCHANGED <<procs, args, requests, output, rendered, sent, pid>>

\* os.remove(pid_file): raises when the file is not there
stop_remove(i) ==
    /\ pc[i] = "remove"
    /\ IF fs[pid_file(args[i])].exists
       THEN /\ fs' = [fs EXCEPT ![pid_file(args[i])] = Absent]
            /\ Return(i)
       ELSE /\ Finish(i, 1)
            /\ UNCHANGED fs
    /\ UNCHANGED <<procs, args, requests, output, rendered, sent, pid>>

(***************************************************************************)
(* The supervised process, on its own.                                     *)
(***************************************************************************)
ChildClosesOutput(p) ==
    /\ procs[p] = "running"
    /\ procs' = [procs EXCEPT ![p] = "quiet"]
    /\ UNCHANGED <<fs, shellvars>>

ChildExits(p) ==
    /\ procs[p] \in {"running", "quiet"}
    /\ procs' = [procs EXCEPT ![p] = IF ParentAlive(p) THEN "zombie" ELSE "none"]
    /\ UNCHANGED <<fs, shellvars>>

(***************************************************************************)
(* Specifications.                                                         *)
(*                                                                         *)
(* Spec: an operator runs one invocation after another, of any subcommand, *)
(* against an installation whose supervised processes run on their own.    *)
(* SpecQuery: one invocation of a query subcommand or of status, over the  *)
(* whole argument space; these handlers touch neither fs nor procs.        *)
(* SpecRace: two operators run stop and background start concurrently      *)
(* against the same installation.                                          *)
(***************************************************************************)
\* the arguments of the query subcommands that decide a branch of a handler
BranchArgs ==
    {a \in QueryArgs({None, <<"3", "0", "m">>, <<"+", "1", "d">>}, {-1}) :
        a.hostid = None /\ ~a.local}

Next ==
    \/ parse_arguments("a", BranchArgs \cup LifecycleArgs)
    \/ CallStatus("a")
    \/ CallQuery("a")
    \/ start("a")
    \/ run_ecc_Popen("a")
    \/ run_ecc_write("a")
    \/ run_ecc_relay("a")
    \/ run_ecc_wait("a")
    \/ stop_read("a")
    \/ stop_kill("a")
    \/ stop_remove("a")
    \/ Exit("a")
    \/ \E p \in Pids : ChildClosesOutput(p)
    \/ \E p \in Pids : ChildExits(p)

Spec == Init /\ [][Next]_vars

InitQuery == Init /\ fs = [p \in Paths |-> Absent]

NextQuery ==
    \/ parse_arguments("a", QueryArgs(Durations, Limits))
    \/ CallStatus("a")
    \/ CallQuery("a")
    \/ Exit("a")

SpecQuery == InitQuery /\ [][NextQuery]_vars

\* the lifecycle invocations that return at once: stop, and start in the background
DetachedArgs == {a \in LifecycleArgs : ~a.foreground}

NextRace ==
    \/ \E i \in Shells : parse_arguments(i, DetachedArgs)
    \/ \E i \in Shells : start(i)
    \/ \E i \in Shells : run_ecc_Popen(i)
    \/ \E i \in Shells : run_ecc_write(i)
    \/ \E i \in Shells : stop_read(i)
    \/ \E i \in Shells : stop_kill(i)
    \/ \E i \in Shells : stop_remove(i)
    \/ \E i \in Shells : Exit(i)
    \/ \E p \in Pids : ChildExits(p)

SpecRace == Init /\ [][NextRace]_vars

(***************************************************************************)
(* What the claims speak of.                                               *)
(***************************************************************************)
Done(i) == pc[i] = "done"
IsQuery(i) == args[i].subcommand \in QuerySubcommands

\* the remote calls of invocation i other than the probe
PrimaryCalls(i) == SelectSeq(requests[i], LAMBDA c : c.by # "status")
ProbeCalls(i) == SelectSeq(requests[i], LAMBDA c : c.by = "status")

\* the first remote call of invocation i was the probe, and it failed / succeeded
ProbeFailed(i) ==
    requests[i] # <<>> /\ requests[i][1].by = "status" /\ ~requests[i][1].result.successful
ProbeSucceeded(i) ==
    requests[i] # <<>> /\ requests[i][1].by = "status" /\ requests[i][1].result.successful

TableWithoutKeyspace(a) == Truthy(a.table) /\ ~Truthy(a.keyspace)
SignedDuration(a) == Truthy(a.duration) /\ a.duration[1] \in {"+", "-"}

InvalidArgumentMsgs ==
    {MsgIdWithFull, MsgMustKeyspace, MsgKeyspaceIfTable, MsgDurationOrSince,
     MsgSignedDuration}

\* invocation i printed the message of a failed validation
ValidationFailed(i) ==
    \E k \in 1..Len(output[i]) : output[i][k].text \in InvalidArgumentMsgs

\* the validations of a subcommand that the arguments violate, in the order
\* in which the handler tests them
Violations(a) ==
    CASE a.subcommand = "schedules" ->
           (IF a.full /\ ~Truthy(a.id) THEN <<MsgIdWithFull>> ELSE <<>>)
             \o (IF TableWithoutKeyspace(a) THEN <<MsgMustKeyspace>> ELSE <<>>)
      [] a.subcommand = "repairs" ->
           IF TableWithoutKeyspace(a) THEN <<MsgMustKeyspace>> ELSE <<>>
      [] a.subcommand = "run-repair" ->
           IF TableWithoutKeyspace(a) THEN <<MsgKeyspaceIfTable>> ELSE <<>>
      [] a.subcommand = "repair-info" ->
           (IF TableWithoutKeyspace(a) THEN <<MsgKeyspaceIfTable>> ELSE <<>>)
             \o (IF ~Truthy(a.duration) /\ ~Truthy(a.since)
                 THEN <<MsgDurationOrSince>> ELSE <<>>)
             \o (IF SignedDuration(a) THEN <<MsgSignedDuration>> ELSE <<>>)
      [] OTHER -> <<>>

(***************************************************************************)
(* C1. In an invocation of a query subcommand whose liveness probe         *)
(* returned Failure, whatever the arguments: the invocation has ended with *)
(* a non-zero exit code, it printed the "not running" message and nothing  *)
(* else, and neither the subcommand's remote call nor the renderer was     *)
(* invoked.                                                                *)
(***************************************************************************)
C1_GateClosed ==
    \A i \in Shells :
        (IsQuery(i) /\ ProbeFailed(i)) =>
            /\ Done(i)
            /\ exitcode[i] # 0
            /\ output[i] = <<Line(MsgNotRunning)>>
            /\ Len(requests[i]) = 1
            /\ PrimaryCalls(i) = <<>>
            /\ rendered[i] = <<>>

C1_Witness ==
    \E i \in Shells :
        /\ args[i].subcommand = "repair-info"
        /\ Truthy(args[i].since)
        /\ ProbeFailed(i)
        /\ Done(i)

(***************************************************************************)
(* C3. In an invocation of a query subcommand with table set and keyspace  *)
(* unset, whatever the other arguments: no remote call other than the      *)
(* probe is issued, and the invocation ends with a message and a non-zero  *)
(* exit code.                                                              *)
(***************************************************************************)
C3_TableNeedsKeyspace ==
    \A i \in Shells :
        (IsQuery(i) /\ TableWithoutKeyspace(args[i])) =>
            /\ PrimaryCalls(i) = <<>>
            /\ Done(i) => (exitcode[i] # 0 /\ output[i] # <<>>)

(***************************************************************************)
(* C4. In an invocation of repair-info whose duration begins with '+' or   *)
(* '-', whatever since, keyspace and table: get_repair_info is never       *)
(* called, the renderer is never called, and the invocation ends with a    *)
(* non-zero exit code and one message, which is an InvalidArgument message *)
(* once the liveness gate has been passed.                                 *)
(***************************************************************************)
C4_SignedDurationRefused ==
    \A i \in Shells :
        (args[i].subcommand = "repair-info" /\ SignedDuration(args[i])) =>
            /\ PrimaryCalls(i) = <<>>
            /\ rendered[i] = <<>>
            /\ Done(i) =>
                 /\ exitcode[i] # 0
                 /\ Len(output[i]) = 1
                 /\ ProbeSucceeded(i) => output[i][1].text \in InvalidArgumentMsgs
                 /\ (ProbeSucceeded(i) /\ ~TableWithoutKeyspace(args[i])) =>
                        output[i][1].text = MsgSignedDuration

C4_Witness ==
    \E i \in Shells :
        /\ args[i].subcommand = "repair-info"
        /\ SignedDuration(args[i])
        /\ args[i].duration[1] = "-"
        /\ Truthy(args[i].since)
        /\ ProbeSucceeded(i)
        /\ Done(i)
        /\ output[i] = <<Line(MsgSignedDuration)>>

(***************************************************************************)
(* C5. An invocation of repair-info given neither since nor duration never *)
(* calls get_repair_info and ends with a non-zero exit code and, once past *)
(* the liveness gate, an InvalidArgument message.  Given since and no      *)
(* duration, it does not fail this validation: once past the gate (and     *)
(* the table/keyspace validation) it calls get_repair_info with that since *)
(* and with no duration.                                                   *)
(***************************************************************************)
C5_SinceOrDuration ==
    \A i \in Shells :
        LET a == args[i] IN
        /\ (a.subcommand = "repair-info" /\ a.since = None /\ a.duration = None) =>
              /\ PrimaryCalls(i) = <<>>
              /\ Done(i) =>
                   /\ exitcode[i] # 0
                   /\ ProbeSucceeded(i) =>
                        output[i] = <<Line(IF TableWithoutKeyspace(a)
                                           THEN MsgKeyspaceIfTable
                                           ELSE MsgDurationOrSince)>>
        /\ (a.subcommand = "repair-info" /\ Truthy(a.since) /\ a.duration = None
              /\ Done(i) /\ ProbeSucceeded(i)) =>
              /\ ~(Line(MsgDurationOrSince) \in {output[i][k] : k \in 1..Len(output[i])})
              /\ ~TableWithoutKeyspace(a) =>
                   /\ Len(PrimaryCalls(i)) = 1
                   /\ PrimaryCalls(i)[1].op = "get_repair_info"
                   /\ PrimaryCalls(i)[1].params.since = a.since
                   /\ PrimaryCalls(i)[1].params.duration = None
                   /\ exitcode[i] = 0

C5_Witness ==
    \E i \in Shells :
        /\ args[i].subcommand = "repair-info"
        /\ Truthy(args[i].since)
        /\ args[i].duration = None
        /\ Done(i)
        /\ Len(PrimaryCalls(i)) = 1
        /\ PrimaryCalls(i)[1].params.duration = None

(***************************************************************************)
(* C6. An invocation of schedules with full set and id unset, whatever     *)
(* keyspace and table: neither get_schedule nor list_schedules is called   *)
(* by the handler, the renderer is not called, and the invocation ends     *)
(* with a non-zero exit code and one message, which past the liveness gate *)
(* is "Must specify id with full".                                         *)
(***************************************************************************)
C6_FullNeedsId ==
    \A i \in Shells :
        (args[i].subcommand = "schedules" /\ args[i].full /\ ~Truthy(args[i].id)) =>
            /\ PrimaryCalls(i) = <<>>
            /\ rendered[i] = <<>>
            /\ Done(i) =>
                 /\ exitcode[i] # 0
                 /\ Len(output[i]) = 1
                 /\ ProbeSucceeded(i) => output[i] = <<Line(MsgIdWithFull)>>

C6_Witness ==
    \E i \in Shells :
        /\ args[i].subcommand = "schedules"
        /\ args[i].full
        /\ ~Truthy(args[i].id)
        /\ Truthy(args[i].table)
        /\ ProbeSucceeded(i)
        /\ Done(i)
        /\ exitcode[i] = 1

(***************************************************************************)
(* C7. An invocation of a query subcommand that ends in a validation       *)
(* failure has made exactly one remote call, the probe, which succeeded,   *)
(* and has called no renderer; it printed exactly one message, that of the *)
(* first violated validation in the handler's order, and its exit code is  *)
(* non-zero.  In particular, when several validations are violated at once *)
(* the invocation past the gate ends this way.                             *)
(***************************************************************************)
C7_FirstViolationWins ==
    \A i \in Shells :
        /\ (IsQuery(i) /\ ValidationFailed(i)) =>
              /\ Done(i)
              /\ exitcode[i] # 0
              /\ Len(requests[i]) = 1
              /\ ProbeSucceeded(i)
              /\ PrimaryCalls(i) = <<>>
              /\ rendered[i] = <<>>
              /\ Violations(args[i]) # <<>>
              /\ output[i] = <<Line(Head(Violations(args[i])))>>
        /\ (IsQuery(i) /\ Done(i) /\ ProbeSucceeded(i) /\ Len(Violations(args[i])) > 1) =>
              /\ ValidationFailed(i)
              /\ output[i] = <<Line(Head(Violations(args[i])))>>

C7_Witness ==
    \E i \in Shells :
        /\ args[i].subcommand = "repair-info"
        /\ Len(Violations(args[i])) > 1
        /\ ValidationFailed(i)
        /\ Done(i)

(***************************************************************************)
(* C8. An invocation of a query subcommand that has passed the gate and    *)
(* the validations makes exactly one remote call besides the probe and     *)
(* routes its result to exactly one sink: on Success the renderer is       *)
(* called exactly once, with the payload, and nothing is printed; on       *)
(* Failure the cause is printed and the renderer is not called.  Either    *)
(* way the exit code is 0.                                                 *)
(***************************************************************************)
C8_ResultRouting ==
    \A i \in Shells :
        (IsQuery(i) /\ Done(i) /\ ProbeSucceeded(i) /\ ~ValidationFailed(i)) =>
            /\ Len(PrimaryCalls(i)) = 1
            /\ Len(requests[i]) = 2
            /\ exitcode[i] = 0
            /\ LET r == PrimaryCalls(i)[1].result
               IN IF r.successful
                  THEN /\ Len(rendered[i]) = 1
                       /\ rendered[i][1].args[1] = r.data
                       /\ output[i] = <<>>
                  ELSE /\ rendered[i] = <<>>
                       /\ output[i] = <<Line(r.exception)>>

C8_Witness ==
    \E i \in Shells :
        /\ IsQuery(i)
        /\ Done(i)
        /\ Len(PrimaryCalls(i)) = 1
        /\ ~PrimaryCalls(i)[1].result.successful
        /\ output[i] = <<Line(Failure.exception)>>
        /\ exitcode[i] = 0

(***************************************************************************)
(* C2. An invocation of start or of stop makes no remote call, the probe   *)
(* included, and calls no renderer, at any point; what it does is decided  *)
(* by the PID file and the process table alone.                            *)
(***************************************************************************)
C2_LifecycleBypassesProbe ==
    \A i \in Shells :
        args[i].subcommand \in LifecycleSubcommands =>
            /\ requests[i] = <<>>
            /\ rendered[i] = <<>>
            /\ \A k \in 1..Len(todo[i]) : todo[i][k].fn \in LifecycleSubcommands

C2_Witness ==
    \E i \in Shells :
        /\ args[i].subcommand = "stop"
        /\ Done(i)
        /\ exitcode[i] = 0
        /\ Len(sent[i]) = 1
        /\ ~fs[pid_file(args[i])].exists
        /\ requests[i] = <<>>

(***************************************************************************)
(* C9. The step of stop that finds no PID file at its path ends the        *)
(* invocation with a non-zero exit code, having sent no signal, and leaves *)
(* the PID files and the process table as they were.                       *)
(***************************************************************************)
StopFindsNoFile(i) ==
    /\ pc[i] = "call"
    /\ todo[i] # <<>>
    /\ Head(todo[i]).fn = "stop"
    /\ ~fs[pid_file(args[i])].exists
    /\ pc'[i] # pc[i]

C9_StopWithoutPidFile ==
    [][\A i \in Shells :
          StopFindsNoFile(i) =>
              /\ pc'[i] = "done"
              /\ exitcode'[i] # 0
              /\ sent'[i] = <<>>
              /\ output'[i] = <<>>
              /\ fs' = fs
              /\ procs' = procs]_vars

C9_Witness ==
    \E i \in Shells :
        /\ args[i].subcommand = "stop"
        /\ Done(i)
        /\ exitcode[i] = 1
        /\ pid[i] = 0
        /\ sent[i] = <<>>
        /\ ~fs[pid_file(args[i])].exists
        /\ \E p \in Pids : procs[p] = "running"

(***************************************************************************)
(* C10. An invocation of stop that read the pid held by the PID file ends  *)
(* with exit code 0, having sent SIGTERM once, to that pid, and with the   *)
(* PID file gone, whether or not a process with that pid is running.       *)
(***************************************************************************)
\* the PID file at the path of invocation i is gone or holds the pid it read
HeldPidRead(i) ==
    LET f == fs[pid_file(args[i])]
    IN f.exists => (int(f.text).ok /\ int(f.text).value = pid[i])

C10_StopSignalsAndRemoves ==
    \A i \in Shells :
        (args[i].subcommand = "stop" /\ Done(i) /\ pid[i] # 0 /\ HeldPidRead(i)) =>
            /\ exitcode[i] = 0
            /\ sent[i] = <<Signal(pid[i], TRUE)>>
            /\ ~fs[pid_file(args[i])].exists

(***************************************************************************)
(* C11. The step of a start not in the foreground that follows the spawn   *)
(* writes the child's pid, in decimal, as the whole text of the PID file   *)
(* at the target path (arguments.pidfile if given, else the default) and   *)
(* touches no other file; with that step the invocation is over, exit code *)
(* 0: nothing of the child's output was relayed, the child was not waited  *)
(* for, and a running child is still running.                              *)
(***************************************************************************)
BackgroundWrite(i) ==
    /\ pc[i] = "write_pidfile"
    /\ ~args[i].foreground
    /\ pc'[i] # pc[i]

C11_BackgroundStart ==
    [][\A i \in Shells :
          BackgroundWrite(i) =>
              /\ fs' = [fs EXCEPT ![IF args[i].pidfile = None THEN DEFAULT_PID_FILE
                                    ELSE args[i].pidfile] = File(Decimal(pid[i]))]
              /\ int(fs'[pid_file(args[i])].text) = [ok |-> TRUE, value |-> pid[i]]
              /\ pc'[i] = "done"
              /\ exitcode'[i] = 0
              /\ output'[i] = <<LineN(MsgStarted, pid[i])>>
              /\ procs[pid[i]] \in {"running", "quiet"} => procs'[pid[i]] = procs[pid[i]]]_vars

C11_Witness ==
    \E i \in Shells :
        /\ args[i].subcommand = "start"
        /\ ~args[i].foreground
        /\ args[i].pidfile = OtherPidFile
        /\ Done(i)
        /\ exitcode[i] = 0
        /\ pid[i] = 2
        /\ fs[OtherPidFile] = File(<<"2">>)
        /\ procs[pid[i]] = "running"

(***************************************************************************)
(* C12. In every start the pid is written after the spawn and before any   *)
(* blocking step: while the start waits to write, its child exists; while  *)
(* a start relays its child's output or waits for its exit, it is a        *)
(* foreground start and the PID file at its path holds the child's pid;    *)
(* and a foreground start that has returned (exit code 0) has seen the end *)
(* of the child's output and the child's exit.                             *)
(***************************************************************************)
C12_WriteBeforeBlocking ==
    \A i \in Shells :
        args[i].subcommand = "start" =>
            /\ pc[i] \in {"call", "run_ecc"} => pid[i] = 0
            /\ pc[i] = "write_pidfile" => (pid[i] \in Pids /\ procs[pid[i]] # "none")
            /\ pc[i] \in {"relay", "wait"} =>
                 /\ args[i].foreground
                 /\ fs[pid_file(args[i])] = File(Decimal(pid[i]))
            /\ pc[i] = "wait" => procs[pid[i]] \in {"quiet", "zombie"}
            /\ (Done(i) /\ args[i].foreground /\ exitcode[i] = 0) =>
                 /\ pid[i] \in Pids
                 /\ procs[pid[i]] = "none"
                 /\ fs[pid_file(args[i])] = File(Decimal(pid[i]))

C12_Witness ==
    \E i \in Shells :
        /\ args[i].subcommand = "start"
        /\ args[i].foreground
        /\ pc[i] = "relay"
        /\ Len(output[i]) > 1
        /\ procs[pid[i]] = "running"
        /\ fs[pid_file(args[i])] = File(Decimal(pid[i]))

(***************************************************************************)
(* C13. Every step of a start that has spawned no child leaves the PID     *)
(* files and the process table as they were, and a start that ends without *)
(* having spawned a child (the launch command could not be assembled, or   *)
(* the spawn failed) ends with a non-zero exit code.                       *)
(***************************************************************************)
C13_LaunchFailureLeavesNoTrace ==
    [][\A i \in Shells :
          (pc'[i] # pc[i] /\ args'[i].subcommand = "start" /\ pid'[i] = 0) =>
              /\ fs' = fs
              /\ procs' = procs
              /\ pc'[i] = "done" => (exitcode'[i] # 0 /\ output'[i] = <<>>)]_vars

C13_Witness ==
    \E i \in Shells :
        /\ args[i].subcommand = "start"
        /\ Done(i)
        /\ exitcode[i] = 1
        /\ pid[i] = 0
        /\ fs[pid_file(args[i])] = File(<<"x">>)
        /\ \A p \in Pids : procs[p] = "none"

(***************************************************************************)
(* C14. The duration token handed to get_repair_info.                      *)
(***************************************************************************)
Dur30m == <<"3", "0", "m">>
DurPt30m == <<"p", "t", "3", "0", "m">>
LowerCaseLetters == {"p", "t", "s", "m", "h", "d"}
LowerUpper ==
    {<<"p", "P">>, <<"t", "T">>, <<"s", "S">>, <<"m", "M">>, <<"h", "H">>, <<"d", "D">>}

\* invocation i is a finished repair-info that issued its remote call
RepairInfoCalled(i) ==
    /\ Done(i)
    /\ args[i].subcommand = "repair-info"
    /\ PrimaryCalls(i) # <<>>

\* the duration parameter of the remote call of invocation i
PassedDuration(i) == PrimaryCalls(i)[1].params.duration

\* the duration parameter the same invocation passes when typed with duration d
PassedDurationFor(i, d) ==
    repair_info_call([args[i] EXCEPT !.duration = d], Success).req[1].params.duration

\* C14 as stated: the duration 30m and the duration pt30m reach
\* get_repair_info as one and the same token.
C14_SameToken ==
    \A i \in Shells :
        /\ (RepairInfoCalled(i) /\ args[i].duration = Dur30m) =>
               PassedDuration(i) = PassedDurationFor(i, DurPt30m)
        /\ (RepairInfoCalled(i) /\ args[i].duration = DurPt30m) =>
               PassedDuration(i) = PassedDurationFor(i, Dur30m)

\* C14 as the code has it: the duration reaches get_repair_info upper-cased
\* character for character and otherwise unchanged (30m as 30M, pt30m as
\* PT30M, PT30M as PT30M); without a duration the parameter is None.
C14_UpperCasedToken ==
    \A i \in Shells :
        RepairInfoCalled(i) =>
            LET d == args[i].duration
                t == PassedDuration(i)
            IN IF d = None \/ d = <<>>
               THEN t = None
               ELSE /\ Len(t) = Len(d)
                    /\ \A k \in 1..Len(d) :
                          /\ t[k] \notin LowerCaseLetters
                          /\ t[k] = d[k] \/ <<d[k], t[k]>> \in LowerUpper
                    /\ d = Dur30m => t = <<"3", "0", "M">>
                    /\ d = DurPt30m => t = <<"P", "T", "3", "0", "M">>
                    /\ d = <<"P", "T", "3", "0", "M">> => t = d

C14_Witness ==
    \E i \in Shells :
        /\ RepairInfoCalled(i)
        /\ args[i].duration = DurPt30m
        /\ PassedDuration(i) = <<"P", "T", "3", "0", "M">>
        /\ PrimaryCalls(i)[1].op = "get_repair_info"

(***************************************************************************)
(* C15. No invocation repeats a request: at every point of an invocation   *)
(* at most one probe and at most one other remote request have been        *)
(* issued, the probe before the other; and an invocation whose probe       *)
(* failed is over with that single request, exit code non-zero.            *)
(***************************************************************************)
C15_NoRetries ==
    \A i \in Shells :
        /\ Len(ProbeCalls(i)) <= 1
        /\ Len(PrimaryCalls(i)) <= 1
        /\ Len(requests[i]) = 2 => requests[i][1].by = "status"
        /\ ProbeFailed(i) =>
             /\ Done(i)
             /\ Len(requests[i]) = 1
             /\ exitcode[i] # 0

C15_Witness ==
    \E i \in Shells :
        /\ Done(i)
        /\ Len(ProbeCalls(i)) = 1
        /\ Len(PrimaryCalls(i)) = 1
        /\ ~PrimaryCalls(i)[1].result.successful

(***************************************************************************)
(* C16. Nothing keeps a start from recording its child over the record of  *)
(* another: the write step of every start replaces whatever the PID file   *)
(* at its path held, ends a background start with exit code 0 and stops no *)
(* process; and whenever two starts against the same path have finished    *)
(* and their two children run, the PID file holds the pid of one of them   *)
(* only, so the other child is recorded nowhere at that path.  The runs    *)
(* include the two starts overlapping and one following the other.         *)
(***************************************************************************)
StartWrite(i) ==
    /\ pc[i] = "write_pidfile"
    /\ pc'[i] # pc[i]

\* two finished starts against one path, their two children running
BothStarted(i, j) ==
    /\ i # j
    /\ args[i].subcommand = "start" /\ args[j].subcommand = "start"
    /\ Done(i) /\ Done(j)
    /\ exitcode[i] = 0 /\ exitcode[j] = 0
    /\ pid_file(args[i]) = pid_file(args[j])
    /\ pid[i] # pid[j]
    /\ procs[pid[i]] = "running" /\ procs[pid[j]] = "running"

C16_LaterStartOverwrites ==
    [][/\ \A i \in Shells :
             StartWrite(i) =>
                 /\ fs'[pid_file(args[i])] = File(Decimal(pid[i]))
                 /\ pc'[i] = "done"
                 /\ exitcode'[i] = 0
                 /\ \A q \in Pids : procs[q] = "running" => procs'[q] = "running"
       /\ \A i, j \in Shells :
             BothStarted(i, j)' =>
                 /\ fs'[pid_file(args'[i])] \in
                        {File(Decimal(pid'[i])), File(Decimal(pid'[j]))}
                 /\ \E k \in {i, j} :
                        int(fs'[pid_file(args'[i])].text).value # pid'[k]]_vars

C16_Witness ==
    /\ BothStarted("a", "b")
    /\ pid["a"] = 1
    /\ pid["b"] = 2
    /\ fs[pid_file(args["a"])] = File(<<"2">>)

(***************************************************************************)
(* C17. The delete step of a stop removes the PID file when it is there    *)
(* and fails, exit code non-zero, when it is gone; and whenever two stops  *)
(* against the same path have both read the same pid, both delivered the   *)
(* signal to it and both finished, the PID file is absent and one of the   *)
(* two has succeeded.                                                      *)
(***************************************************************************)
StopRemove(i) ==
    /\ pc[i] = "remove"
    /\ pc'[i] # pc[i]

\* two finished stops against one path that signalled the same pid
BothStopped(i, j) ==
    /\ i # j
    /\ args[i].subcommand = "stop" /\ args[j].subcommand = "stop"
    /\ Done(i) /\ Done(j)
    /\ pid_file(args[i]) = pid_file(args[j])
    /\ pid[i] \in Pids
    /\ pid[i] = pid[j]
    /\ sent[i] = <<Signal(pid[i], TRUE)>>
    /\ sent[j] = <<Signal(pid[j], TRUE)>>

C17_ConcurrentStops ==
    [][/\ \A i \in Shells :
             StopRemove(i) =>
                 /\ pc'[i] = "done"
                 /\ ~fs'[pid_file(args[i])].exists
                 /\ exitcode'[i] = (IF fs[pid_file(args[i])].exists THEN 0 ELSE 1)
       /\ \A i, j \in Shells :
             BothStopped(i, j)' =>
                 /\ ~fs'[pid_file(args'[i])].exists
                 /\ exitcode'[i] = 0 \/ exitcode'[j] = 0]_vars

C17_Witness ==
    /\ BothStopped("a", "b")
    /\ exitcode["a"] = 0
    /\ exitcode["b"] = 1
    /\ ~fs[pid_file(args["a"])].exists

(***************************************************************************)
(* C18. A finished status invocation has issued exactly one request, the   *)
(* probe: when it succeeded the output is the single line 'ecChronos is    *)
(* running' and the exit code is 0, when it failed the output is the       *)
(* single line 'ecChronos is not running' and the exit code is non-zero.   *)
(* A query invocation whose probe has succeeded has printed nothing by     *)
(* the time its handler is called, and never prints the 'running' line.    *)
(***************************************************************************)
C18_StatusReport ==
    \A i \in Shells :
        /\ (args[i].subcommand = "status" /\ Done(i)) =>
             /\ Len(requests[i]) = 1
             /\ requests[i][1].by = "status"
             /\ requests[i][1].op = "list_schedules"
             /\ rendered[i] = <<>>
             /\ IF requests[i][1].result.successful
                THEN output[i] = <<Line(MsgRunning)>> /\ exitcode[i] = 0
                ELSE output[i] = <<Line(MsgNotRunning)>> /\ exitcode[i] # 0
        /\ (IsQuery(i) /\ ProbeSucceeded(i)) =>
             /\ (pc[i] = "call" /\ Len(requests[i]) = 1) => output[i] = <<>>
             /\ \A k \in 1..Len(output[i]) : output[i][k] # Line(MsgRunning)

C18_Witness ==
    \E i \in Shells :
        /\ args[i].subcommand = "status"
        /\ Done(i)
        /\ ProbeSucceeded(i)
        /\ output[i] = <<Line(MsgRunning)>>
        /\ exitcode[i] = 0

(***************************************************************************)
(* C19. The PID files change in two steps only: the write step of a start, *)
(* which leaves at its path the pid of its child, and the delete step of a *)
(* stop, which leaves its path without a file.  No step of a query         *)
(* subcommand or of status changes a PID file, a process or sends a        *)
(* signal; no step of a child changes a PID file; the return of a          *)
(* foreground start, after its child has exited, leaves the file with the  *)
(* pid of the child that is gone; and the signal step of a stop delivers   *)
(* the signal to whatever process holds the pid it read.                   *)
(***************************************************************************)
\* the one path at which fs and fs' differ is path, and its new value is f
OnlyChange(path, f) ==
    /\ fs'[path] = f
    /\ \A q \in Paths : q # path => fs'[q] = fs[q]

C19_PidFileFrame ==
    [][/\ fs' # fs =>
             \E i \in Shells :
                 \/ /\ args[i].subcommand = "start"
                    /\ pc[i] = "write_pidfile"
                    /\ OnlyChange(pid_file(args[i]), File(Decimal(pid[i])))
                 \/ /\ args[i].subcommand = "stop"
                    /\ pc[i] = "remove"
                    /\ OnlyChange(pid_file(args[i]), Absent)
       /\ \A i \in Shells :
             (pc'[i] # pc[i] /\ args'[i].subcommand \in QuerySubcommands \cup {"status"}) =>
                 /\ fs' = fs
                 /\ procs' = procs
                 /\ sent'[i] = <<>>
       /\ \A i \in Shells :
             (pc[i] = "wait" /\ pc'[i] # pc[i]) =>
                 /\ procs'[pid[i]] = "none"
                 /\ fs'[pid_file(args[i])] = File(Decimal(pid[i]))
       /\ \A i \in Shells :
             (pc[i] = "kill" /\ pc'[i] # pc[i] /\ pid[i] \in Pids /\ procs[pid[i]] # "none") =>
                 /\ sent'[i] = <<Signal(pid[i], TRUE)>>
                 /\ pc'[i] = "remove"]_vars

\* a stop has signalled process 1 on the word of a PID file no start wrote,
\* while the start that spawned process 1 recorded it in another file
C19_Witness ==
    \E i \in Shells :
        /\ args[i].subcommand = "stop"
        /\ pid_file(args[i]) = DEFAULT_PID_FILE
        /\ pc[i] = "remove"
        /\ sent[i] = <<Signal(1, TRUE)>>
        /\ fs[DEFAULT_PID_FILE] = File(<<"1", "\n">>)
        /\ fs[OtherPidFile] = File(<<"1">>)
        /\ procs[1] = "running"

(***************************************************************************)
(* C20. A stop sends at most one signal, SIGTERM, and to no other pid than *)
(* the integer that int() makes of the first line of the PID file at its   *)
(* path.  When that line is no integer the stop ends there, exit code      *)
(* non-zero, no signal sent; when os.kill raises (no such process) the     *)
(* stop ends there, exit code non-zero; in both cases the PID files are    *)
(* left as they were.                                                      *)
(***************************************************************************)
StopReads(i) ==
    /\ args[i].subcommand = "stop"
    /\ pc[i] = "call"
    /\ pc'[i] # pc[i]
    /\ fs[pid_file(args[i])].exists

StopKills(i) ==
    /\ args[i].subcommand = "stop"
    /\ pc[i] = "kill"
    /\ pc'[i] # pc[i]

FailsLeavingFiles(i) ==
    /\ pc'[i] = "done"
    /\ exitcode'[i] # 0
    /\ fs' = fs

C20_OneSignalToTheRecordedPid ==
    [][\A i \in Shells :
          /\ args'[i].subcommand = "stop" =>
               /\ Len(sent'[i]) <= 1
               /\ sent'[i] # <<>> =>
                    (sent'[i][1].pid = pid'[i] /\ sent'[i][1].sig = "SIGTERM")
          /\ StopReads(i) =>
               LET text == fs[pid_file(args[i])].text
                   n == int(readline(text))
               IN /\ sent'[i] = <<>>
                  /\ IF n.ok
                     THEN pid'[i] = n.value /\ pc'[i] = "kill" /\ fs' = fs
                     ELSE FailsLeavingFiles(i) /\ pid'[i] = 0
                  /\ text = <<"1", "\n", "x">> => pid'[i] = 1
                  /\ text = <<"x">> => pc'[i] = "done"
          /\ StopKills(i) =>
               \E d \in BOOLEAN :
                  /\ sent'[i] = <<Signal(pid[i], d)>>
                  /\ d = FALSE => FailsLeavingFiles(i)
                  /\ d = TRUE => (pc'[i] = "remove" /\ fs' = fs)
                  /\ (pid[i] \in Pids /\ procs[pid[i]] = "none") => d = FALSE]_vars

C20_Witness ==
    \E i \in Shells :
        /\ args[i].subcommand = "stop"
        /\ Done(i)
        /\ exitcode[i] = 1
        /\ sent[i] = <<Signal(1, FALSE)>>
        /\ fs[pid_file(args[i])] = File(<<"1", "\n", "x">>)

====
